---- MODULE Spec2Model ----
(***************************************************************************)
(* Model of the Base64 codec of src/src/lib.rs: the two engines, encode,   *)
(* decode and the encode-then-decode round trip exercised by its tests.    *)
(* Characters are their ASCII codes.  Every u32 the program computes is    *)
(* built from the three byte fields or the four 6-bit fields of one group  *)
(* and stays below 2^26, inside the exact integer range of the checker.    *)
(***************************************************************************)
EXTENDS Integers, Sequences, FiniteSets

(* ---------------------------- bounds ----------------------------------- *)
MaxLen == 4
MaxTextLen == 5

\* byte values the encode inputs are drawn from
ByteVals == {0, 1, 4, 16, 77, 97, 251, 255}
\* byte values the decode inputs are drawn from: 'A' 'B' 'Q' '/' '_' '=' '!'
TextVals == {65, 66, 81, 47, 95, 61, 33}

(* ------------------------- program constants --------------------------- *)
ENGINE_TABLE_STANDARD ==
    << 65, 66, 67, 68, 69, 70, 71, 72, 73, 74, 75, 76, 77, 78, 79,
       80, 81, 82, 83, 84, 85, 86, 87, 88, 89, 90, 97, 98, 99, 100,
       101, 102, 103, 104, 105, 106, 107, 108, 109, 110, 111, 112, 113, 114, 115,
       116, 117, 118, 119, 120, 121, 122, 48, 49, 50, 51, 52, 53, 54, 55,
       56, 57, 43, 47 >>

ENGINE_TABLE_URL_SAFE ==
    << 65, 66, 67, 68, 69, 70, 71, 72, 73, 74, 75, 76, 77, 78, 79,
       80, 81, 82, 83, 84, 85, 86, 87, 88, 89, 90, 97, 98, 99, 100,
       101, 102, 103, 104, 105, 106, 107, 108, 109, 110, 111, 112, 113, 114, 115,
       116, 117, 118, 119, 120, 121, 122, 48, 49, 50, 51, 52, 53, 54, 55,
       56, 57, 45, 95 >>

\* Base64::standard(): table and padding '='
standard == [table |-> ENGINE_TABLE_STANDARD, padding |-> 61]

\* Base64::url_safe(): table and padding '='
url_safe == [table |-> ENGINE_TABLE_URL_SAFE, padding |-> 61]

Engines == {standard, url_safe}

ENCODE_MASK == 63

DECODE_MASK == 255

ENCODE_RSH == << 18, 12, 6, 0 >>

DECODE_RSH == << 16, 8, 0 >>

(* ------------------------- integer helpers ----------------------------- *)
RECURSIVE Pow2(_)
Pow2(n) == IF n = 0 THEN 1 ELSE 2 * Pow2(n - 1)

\* x << n on u32: the bits shifted past bit 31 are dropped
Shl(x, n) == IF n = 0 THEN x ELSE (x % Pow2(32 - n)) * Pow2(n)

\* x >> n on u32
Shr(x, n) == x \div Pow2(n)

\* x & y on u32
RECURSIVE BitAnd(_, _)
BitAnd(x, y) ==
    IF x = 0 \/ y = 0 THEN 0
    ELSE (x % 2) * (y % 2) + 2 * BitAnd(x \div 2, y \div 2)

\* u32 addition; the operands are disjoint bit fields below 2^26, no carry out
AddU32(x, y) == x + y

RECURSIVE Concat(_)
Concat(ss) == IF ss = << >> THEN << >> ELSE Head(ss) \o Concat(Tail(ss))

\* .filter(|byte| *byte > 0): the elements above zero, order preserved
RECURSIVE FilterPositive(_)
FilterPositive(s) ==
    IF s = << >> THEN << >>
    ELSE (IF Head(s) > 0 THEN << Head(s) >> ELSE << >>) \o FilterPositive(Tail(s))

\* .take_while(|byte| *byte > 0): the longest prefix of elements above zero
RECURSIVE TakeWhilePositive(_)
TakeWhilePositive(s) ==
    IF s = << >> \/ ~(Head(s) > 0) THEN << >>
    ELSE << Head(s) >> \o TakeWhilePositive(Tail(s))

(* ------------------------------ encode --------------------------------- *)
\* merge_encode_bytes
merge_encode_bytes(first, second, third) ==
    AddU32(AddU32(Shl(first, 16), Shl(second, 8)), third)

\* the match on a window / slice of at most three bytes
MergeWindow(w) ==
    IF Len(w) = 3 THEN merge_encode_bytes(w[1], w[2], w[3])
    ELSE IF Len(w) = 2 THEN merge_encode_bytes(w[1], w[2], 0)
    ELSE IF Len(w) = 1 THEN merge_encode_bytes(w[1], 0, 0)
    ELSE merge_encode_bytes(0, 0, 0)

\* ENCODE_RSH.map(|rsh| merged >> rsh): the mask left out
EncodeIndicesUnmasked(merged) ==
    [k \in 1..4 |-> Shr(merged, ENCODE_RSH[k])]

\* ENCODE_RSH.map(|rsh| (merged >> rsh) & ENCODE_MASK)
EncodeIndices(merged) ==
    [k \in 1..4 |-> BitAnd(Shr(merged, ENCODE_RSH[k]), ENCODE_MASK)]

\* char::from(byte): the index itself taken as the character
TableCharRaw(e, idx) == idx

\* char::from(self.table[byte as usize]); 0 stands for the bounds-check panic
TableChar(e, idx) == IF idx \in 0..63 THEN e.table[idx + 1] ELSE 0

\* bytes.chunks_exact(3): the full windows, the remainder is left out
ChunksExact(s, n) == [g \in 1..(Len(s) \div n) |-> SubSeq(s, n * (g - 1) + 1, n * g)]

\* the indices of a full window that survive .filter(|byte| *byte > 0)
FullIndices(w) == FilterPositive(EncodeIndices(MergeWindow(w)))

\* the characters one full window appends to encoded
EncodeFull(e, w) ==
    LET idx == FullIndices(w) IN [k \in 1..Len(idx) |-> TableChar(e, idx[k])]

\* remaining_bytes
RemainingBytes(B) == Len(B) % 3

\* bytes.len() - remaining_bytes, the start of the leftover slice
SliceStart(B) == Len(B) - RemainingBytes(B)

\* &bytes[bytes.len() - remaining_bytes..]
Leftover(B) == SubSeq(B, SliceStart(B) + 1, Len(B))

\* the characters the leftover bytes append to encoded
EncodeRemainder(e, B) ==
    IF RemainingBytes(B) = 0 THEN << >>
    ELSE LET idx == EncodeIndices(MergeWindow(Leftover(B)))
         IN  [k \in 1..4 |-> IF idx[k] = 0 THEN e.padding ELSE TableChar(e, idx[k])]

\* Base64Engine::encode
encode(e, B) ==
    LET ws == ChunksExact(B, 3)
    IN  Concat([g \in 1..Len(ws) |-> EncodeFull(e, ws[g])]) \o EncodeRemainder(e, B)

\* every merged value encode computes for B
EncodeMerged(B) ==
    LET ws == ChunksExact(B, 3)
    IN  {MergeWindow(ws[g]) : g \in 1..Len(ws)}
          \cup (IF RemainingBytes(B) = 0 THEN {} ELSE {MergeWindow(Leftover(B))})

\* every index encode reads self.table at for B
EncodeTableReads(B) ==
    LET ws  == ChunksExact(B, 3)
        rem == IF RemainingBytes(B) = 0 THEN << >>
               ELSE EncodeIndices(MergeWindow(Leftover(B)))
    IN  (UNION {{FullIndices(ws[g])[k] : k \in 1..Len(FullIndices(ws[g]))} : g \in 1..Len(ws)})
          \cup ({rem[k] : k \in 1..Len(rem)} \ {0})

\* encode panics on an out-of-bounds table read or slice start
EncodePanics(B) ==
    \/ \E i \in EncodeTableReads(B) : i \notin 0..63
    \/ SliceStart(B) \notin 0..Len(B)

(* ------------------------------ decode --------------------------------- *)
\* self.table.iter().position(|b| b == byte) ... .unwrap_or_default()
Position(e, byte) ==
    IF \E p \in 1..64 : e.table[p] = byte
    THEN (CHOOSE p \in 1..64 : e.table[p] = byte /\ \A q \in 1..(p - 1) : e.table[q] # byte) - 1
    ELSE 0

\* the fold over one window of four characters
RECURSIVE FoldWindow(_, _, _, _)
FoldWindow(e, w, i, merged) ==
    IF i > Len(w) THEN merged
    ELSE FoldWindow(e, w, i + 1, AddU32(merged, Shl(Position(e, w[i]), 6 * (3 - (i - 1)))))

\* DECODE_RSH.map(|rsh| ((merged >> rsh) & DECODE_MASK) as u8)
DecodeBytes(merged) ==
    [k \in 1..3 |-> BitAnd(Shr(merged, DECODE_RSH[k]), DECODE_MASK) % 256]

\* the bytes one window pushes: .take_while(|byte| *byte > 0)
DecodeWindow(e, w) == TakeWhilePositive(DecodeBytes(FoldWindow(e, w, 1, 0)))

\* what each window of T pushes onto decoded, window by window
DecodePushes(e, T) ==
    LET ws == ChunksExact(T, 4)
    IN  [g \in 1..Len(ws) |-> DecodeWindow(e, ws[g])]

\* Base64Engine::decode, the Vec inside Ok
decode(e, T) == Concat(DecodePushes(e, T))

\* Base64Engine::decode returns Ok on every path
decodeIsOk(e, T) == TRUE

(* ------------------------------ inputs --------------------------------- *)
SeqsUpTo(S, n) == UNION {[1..k -> S] : k \in 0..n}

ByteSeqs == SeqsUpTo(ByteVals, MaxLen)

TextSeqs == SeqsUpTo(TextVals, MaxTextLen)

(* --------------------------- state machine ----------------------------- *)
VARIABLES engine, pc, bytes, encoded, panicked, tableReads, mergedVals,
          sliceStart, text, decoded, pushes, ok

vars == << engine, pc, bytes, encoded, panicked, tableReads, mergedVals,
           sliceStart, text, decoded, pushes, ok >>

Init ==
    /\ engine \in Engines
    /\ pc = "idle"
    /\ bytes = << >>
    /\ encoded = << >>
    /\ panicked = FALSE
    /\ tableReads = {}
    /\ mergedVals = {}
    /\ sliceStart = 0
    /\ text = << >>
    /\ decoded = << >>
    /\ pushes = << >>
    /\ ok = TRUE

\* engine.encode(B)
Encode ==
    /\ pc = "idle"
    /\ \E B \in ByteSeqs :
         /\ bytes' = B
         /\ encoded' = encode(engine, B)
         /\ panicked' = EncodePanics(B)
         /\ tableReads' = EncodeTableReads(B)
         /\ mergedVals' = EncodeMerged(B)
         /\ sliceStart' = SliceStart(B)
    /\ pc' = "encoded"
    /\ UNCHANGED << engine, text, decoded, pushes, ok >>

\* engine.decode(T) on an arbitrary text
Decode ==
    /\ pc = "idle"
    /\ \E T \in TextSeqs :
         /\ text' = T
         /\ decoded' = decode(engine, T)
         /\ pushes' = DecodePushes(engine, T)
         /\ ok' = decodeIsOk(engine, T)
    /\ pc' = "decoded"
    /\ UNCHANGED << engine, bytes, encoded, panicked, tableReads, mergedVals, sliceStart >>

\* engine.decode(engine.encode(input)), as the tests do
DecodeEncoded ==
    /\ pc = "encoded"
    /\ ~panicked
    /\ text' = encoded
    /\ decoded' = decode(engine, encoded)
    /\ pushes' = DecodePushes(engine, encoded)
    /\ ok' = decodeIsOk(engine, encoded)
    /\ pc' = "roundtrip"
    /\ UNCHANGED << engine, bytes, encoded, panicked, tableReads, mergedVals, sliceStart >>

Next == Encode \/ Decode \/ DecodeEncoded

Spec == Init /\ [][Next]_vars

(* ------------------------- reference notions --------------------------- *)
\* the 64 characters of an engine's alphabet
Alphabet(e) == {e.table[p] : p \in 1..64}

\* the alphabet character of a 6-bit value
AlphabetChar(e, v) == e.table[v + 1]

\* the 6-bit field of a packed 24-bit value at a right shift
SixBits(v, rsh) == (v \div Pow2(rsh)) % 64

\* three bytes packed big-endian, missing bytes as zero
Packed(w) ==
    (IF Len(w) >= 1 THEN w[1] * 65536 ELSE 0)
    + (IF Len(w) >= 2 THEN w[2] * 256 ELSE 0)
    + (IF Len(w) >= 3 THEN w[3] ELSE 0)

\* the number of padding characters at the end of s
RECURSIVE TrailingPads(_, _)
TrailingPads(e, s) ==
    IF s = << >> \/ s[Len(s)] # e.padding THEN 0
    ELSE 1 + TrailingPads(e, SubSeq(s, 1, Len(s) - 1))

\* the 6-bit value a valid character stands for, padding standing for 0
CharValue(e, c) ==
    IF c = e.padding THEN 0 ELSE CHOOSE v \in 0..63 : e.table[v + 1] = c

\* the three bytes four valid characters unpack to
Unpacked(e, w) ==
    LET v == CharValue(e, w[1]) * 262144 + CharValue(e, w[2]) * 4096
             + CharValue(e, w[3]) * 64 + CharValue(e, w[4])
    IN  << (v \div 65536) % 256, (v \div 256) % 256, v % 256 >>

ValidText(e, T) == \A k \in 1..Len(T) : T[k] \in Alphabet(e) \cup {e.padding}

(* ------------------------------ claims --------------------------------- *)
\* C1: decode(encode(B)) succeeds with exactly B, for both engines.
RoundTrip == pc = "roundtrip" => (ok /\ decoded = bytes)

\* C2: the number of characters of encode(B) is 4 * ceil(len(B) / 3).
LengthLaw == pc = "encoded" => Len(encoded) = 4 * ((Len(bytes) + 2) \div 3)

\* C3: every full 3-byte group is encoded as exactly the four alphabet
\* characters of its four 6-bit fields, a field of value 0 included.
FullGroupsEmitFour ==
    pc = "encoded" =>
        LET n == Len(bytes) \div 3
        IN  /\ Len(encoded) >= 4 * n
            /\ \A g \in 1..n : \A k \in 1..4 :
                 encoded[4 * (g - 1) + k] =
                    AlphabetChar(engine,
                        SixBits(Packed(SubSeq(bytes, 3 * g - 2, 3 * g)), ENCODE_RSH[k]))

\* C4: encode(B) ends with exactly (3 - len(B) % 3) % 3 padding characters.
PaddingCount ==
    pc = "encoded" => TrailingPads(engine, encoded) = (3 - (Len(bytes) % 3)) % 3

\* C5: decode of a text holding a byte that is neither in the alphabet nor
\* the padding symbol returns an error.
InvalidSymbolRejected ==
    (pc = "decoded" /\ ~ValidText(engine, text)) => ~ok

\* C6: decode of a text whose length is not a multiple of 4 returns an error.
InvalidLengthRejected ==
    (pc = "decoded" /\ Len(text) % 4 # 0) => ~ok

\* C7: every character of encode(B), B non-empty, is one of the 64 alphabet
\* characters of the engine or the padding symbol.
AlphabetClosure ==
    (pc = "encoded" /\ bytes # << >>) =>
        \A k \in 1..Len(encoded) : encoded[k] \in Alphabet(engine) \cup {engine.padding}

AlphabetClosureWitness ==
    /\ pc = "encoded"
    /\ engine = url_safe
    /\ bytes = << 255, 255, 255, 77 >>
    /\ encoded = << 95, 95, 95, 95, 84, 81, 61, 61 >>

\* C8: encode never fails: every table read is at an index in 0..63, every
\* packed value is below 2^24 and the leftover slice starts within the input.
EncodeTotal ==
    pc = "encoded" =>
        /\ ~panicked
        /\ tableReads \subseteq 0..63
        /\ \A m \in mergedVals : m >= 0 /\ m < 16777216
        /\ sliceStart >= 0 /\ sliceStart <= Len(bytes)
        /\ sliceStart = 3 * (Len(bytes) \div 3)

EncodeTotalWitness ==
    /\ pc = "encoded"
    /\ bytes = << 255, 255, 255, 255 >>
    /\ 63 \in tableReads
    /\ 16777215 \in mergedVals
    /\ sliceStart = 3

\* C9: for every 4-character group of a valid text, decode appends the
\* first 3, 2 or 1 unpacked bytes according to 0, 1 or 2 trailing padding
\* characters of the group, bytes of value 0 included.
DecodeKeepsByPadCount ==
    (pc = "decoded" /\ ValidText(engine, text)) =>
        \A g \in 1..(Len(text) \div 4) :
            LET w == SubSeq(text, 4 * g - 3, 4 * g)
                u == Unpacked(engine, w)
            IN  /\ (w[3] # engine.padding /\ w[4] # engine.padding) => pushes[g] = u
                /\ (w[3] # engine.padding /\ w[4] = engine.padding)
                       => pushes[g] = SubSeq(u, 1, 2)
                /\ (w[3] = engine.padding /\ w[4] = engine.padding)
                       => pushes[g] = SubSeq(u, 1, 1)

\* C10: the last four characters of encode(B) are, for len(B) % 3 = 2, the
\* alphabet characters of the first three 6-bit fields and one padding
\* character, and for len(B) % 3 = 1 those of the first two fields and two
\* padding characters; a field of value 0 is the alphabet's first character.
FinalPartialGroup ==
    (pc = "encoded" /\ Len(bytes) % 3 # 0) =>
        LET r    == Len(bytes) % 3
            v    == Packed(SubSeq(bytes, Len(bytes) - r + 1, Len(bytes)))
            n    == Len(encoded)
            want == [k \in 1..4 |-> IF k <= r + 1
                                    THEN AlphabetChar(engine, SixBits(v, ENCODE_RSH[k]))
                                    ELSE engine.padding]
        IN  n >= 4 /\ SubSeq(encoded, n - 3, n) = want

====
